---- MODULE Spec2Model ----
(***************************************************************************)
(* Claim validation pipeline of app/ai/validator.py (ClaimValidator).      *)
(*                                                                         *)
(* Conventions of the model                                                *)
(*   - money is counted in cents (15000.00 is 1500000), so round(x, 2)     *)
(*     is a rounding to an integer number of cents;                        *)
(*   - scores and confidences are counted in hundredths (0.5 is 50);       *)
(*   - a JSON boolean field of an oracle response is "True", "False" or    *)
(*     "None" (the key is absent, dict.get returns None);                  *)
(*   - a JSON numeric field is Num(n) or Malformed (a non-empty string).   *)
(***************************************************************************)
EXTENDS Integers, Sequences, FiniteSets, TLC

VARIABLES pc, claim, relevant_clauses, coverage_analysis, exclusion_analysis,
          fraud_analysis, payout_calculation, steps, is_valid, recommendation,
          confidence, reasoning, errors, calls, outcome,
          run,      \* 1 in the first validate call, 2 in a repeated one
          script,   \* the stubbed answers a repeated call replays
          first,    \* the result of the first call, kept by the caller
          \* LLMService (app/ai/llm.py)
          llm_pc,             \* position of the service and of its current call
          provider,           \* self._provider, by name
          fallback_provider,  \* self._fallback_provider, by name, or "none"
          entry,              \* the method the caller entered
          invocations,        \* the provider invocations of the current call
          llm_outcome,        \* what the current call returned or raised
          \* BaseStore (app/storage/base.py)
          cache,         \* self._cache
          loaded,        \* self._loaded
          file,          \* the content of self.filepath
          written,       \* the data of the last write that completed
          store_result,  \* what the last operation returned or raised
          \* PolicyExtractor.extract_full_policy (app/ai/extractor.py)
          extract_pc,    \* position of the call
          tasks,         \* the three extractions awaited by gather
          completed,     \* the extractions in the order they finished
          policy,        \* what the call returned or raised
          \* validate calls in flight at the same time
          validations    \* the state of each call

validatorVars ==
    <<pc, claim, relevant_clauses, coverage_analysis, exclusion_analysis,
      fraud_analysis, payout_calculation, steps, is_valid, recommendation,
      confidence, reasoning, errors, calls, outcome, run, script, first>>

llmVars ==
    <<llm_pc, provider, fallback_provider, entry, invocations, llm_outcome>>

storeVars == <<cache, loaded, file, written, store_result>>

extractorVars == <<extract_pc, tasks, completed, policy>>

\* the state a single validation run does not touch
serviceVars == <<llmVars, storeVars, extractorVars, validations>>

nonLlmVars == <<validatorVars, storeVars, extractorVars, validations>>

nonStoreVars == <<validatorVars, llmVars, extractorVars, validations>>

nonExtractorVars == <<validatorVars, llmVars, storeVars, validations>>

nonConcurrentVars == <<validatorVars, llmVars, storeVars, extractorVars>>

vars == <<validatorVars, serviceVars>>

(***************************************************************************)
(* Bounds of the model                                                     *)
(***************************************************************************)
MaxExclusions == 2
MaxIndicators == 3

ClaimedAmounts == {3334, 1500000, 6000000}
DescriptionLengths == {10, 50}
ClaimIds == {"clm_1"}
LimitValues == {0, 5000000}
DeductibleValues == {0, 50000, -50000}
CopayValues == {-10, 0, 20, 150}
ConfidenceValues == {90, 150}
RetrievedCounts == {0, 5}
\* values generate_id("val") can return (12 hex digits of a uuid4)
ValidationIds == {"val_1", "val_2"}
\* score contributions a rule of the fraud stage can carry (hundredths)
ScoreContributions == {10, 20, 30, 40, 60}

(***************************************************************************)
(* Program constants                                                       *)
(***************************************************************************)
TopK == 5
HighValueThreshold == 5000000
MinDescriptionLength == 50
HighValueContribution == 20
VagueContribution == 10
InvestigationThreshold == 50
HighRiskThreshold == 70
MaxScore == 100
FallbackConfidence == 50
DefaultConfidence == 50

FallbackReasoning == "Automated fallback decision"

(***************************************************************************)
(* JSON values                                                             *)
(***************************************************************************)
None == [is_none |-> TRUE]

Num(n) == [is_num |-> TRUE, v |-> n]

Malformed == [is_num |-> FALSE, v |-> 0]

\* Python truthiness of a JSON boolean field read with dict.get(key)
Truthy(b) == b = "True"

Min(a, b) == IF a < b THEN a ELSE b

Max(a, b) == IF a > b THEN a ELSE b

\* round(n / d, 2 decimals) on an amount of n/d cents, d > 0: nearest cent,
\* ties to the even cent (on floats the outcome of an exact decimal tie depends
\* on the binary representation; the amounts of the model produce no tie)
RoundCents(n, d) ==
    LET q == n \div d
        r == n - q * d
    IN  IF 2 * r < d THEN q
        ELSE IF 2 * r > d THEN q + 1
        ELSE IF q % 2 = 0 THEN q ELSE q + 1

(***************************************************************************)
(* Inputs: claims and the responses of the external collaborators          *)
(***************************************************************************)
Claims ==
    [claim_id : ClaimIds, claimed_amount : ClaimedAmounts,
     description_length : DescriptionLengths]

NoClaim == [claim_id |-> "", claimed_amount |-> 0, description_length |-> 0]

NumericFields(S) == {Num(n) : n \in S} \cup {Malformed}

\* dicts the oracle can return for COVERAGE_ANALYSIS_PROMPT
CoverageResponses ==
    [coverage_applies : {"True"},
     coverage_limit : NumericFields(LimitValues),
     deductible : NumericFields(DeductibleValues),
     copay_percentage : {Num(n) : n \in CopayValues},
     error : {FALSE}]
    \cup
    [coverage_applies : {"False", "None"},
     coverage_limit : {Num(0)},
     deductible : {Num(0)},
     copay_percentage : {Num(0)},
     error : {FALSE}]

ExclusionEntries ==
    { [has_exclusion_id |-> TRUE, exception_applies |-> "True"],
      [has_exclusion_id |-> TRUE, exception_applies |-> "False"],
      [has_exclusion_id |-> FALSE, exception_applies |-> "False"] }

SeqsUpTo(S, n) == UNION { [1..k -> S] : k \in 0..n }

\* dicts the oracle can return for EXCLUSION_ANALYSIS_PROMPT
ExclusionResponses ==
    [exclusions_triggered : SeqsUpTo(ExclusionEntries, MaxExclusions),
     claim_excluded : {"True", "False", "None"},
     error : {FALSE}]

\* dicts the oracle can return for RECOMMENDATION_PROMPT; "None" is an
\* absent key, "escalate" a value outside the documented four
RecommendationResponses ==
    [recommendation : {"approve", "deny", "escalate", "None"},
     confidence : {Num(n) : n \in ConfidenceValues} \cup {None},
     reasoning_summary : {"summary"}]

\* how invoke_with_json_async and the use of its value can fail inside the
\* try of a stage: the provider raises, the text is not JSON (ValueError), or
\* the JSON is not an object (result.get raises AttributeError)
OracleFailures == {"unreachable", "invalid_json", "not_an_object"}

RetrievalFailures == {"unreachable"}

(***************************************************************************)
(* Initial state: the validator is constructed, no validation is running   *)
(***************************************************************************)
Init ==
    /\ pc = "idle"
    /\ claim = NoClaim
    /\ relevant_clauses = 0
    /\ coverage_analysis = None
    /\ exclusion_analysis = None
    /\ fraud_analysis = None
    /\ payout_calculation = None
    /\ steps = << >>
    /\ is_valid = FALSE
    /\ recommendation = "pending"
    /\ confidence = 0
    /\ reasoning = ""
    /\ errors = << >>
    /\ calls = << >>
    /\ outcome = [kind |-> "none"]
    /\ run = 1
    /\ script = << >>
    /\ first = [kind |-> "none"]
    /\ llm_pc = "unconstructed"
    /\ provider = "none"
    /\ fallback_provider = "none"
    /\ entry = "none"
    /\ invocations = << >>
    /\ llm_outcome = [kind |-> "none"]
    /\ cache = [k \in {} |-> 0]
    /\ loaded = FALSE
    /\ file = [kind |-> "absent"]
    /\ written = [k \in {} |-> 0]
    /\ store_result = [op |-> "none", kind |-> "none", value |-> "none"]
    /\ extract_pc = "idle"
    /\ tasks = [t \in {"clauses", "coverage", "exclusions"} |->
                  [status |-> "pending", answer |-> << >>, value |-> << >>]]
    /\ completed = << >>
    /\ policy = [kind |-> "none"]
    /\ validations =
          [r \in {1, 2} |->
              [pc |-> "idle", claim |-> NoClaim, relevant_clauses |-> 0,
               coverage_analysis |-> None, exclusion_analysis |-> None,
               fraud_analysis |-> None, payout_calculation |-> None,
               steps |-> << >>, is_valid |-> FALSE,
               recommendation |-> "pending", confidence |-> 0,
               reasoning |-> "", errors |-> << >>, awaiting |-> FALSE,
               calls |-> << >>, outcome |-> [kind |-> "none"]]]

(***************************************************************************)
(* Helpers of the stages                                                   *)
(***************************************************************************)
\* a slip of _add_step: the step is inserted at the front of the list
AddStepAtFront(s, step_name, status) ==
    <<[step_name |-> step_name, status |-> status]>> \o s

\* _add_step: the step is appended to state["steps"]
AddStep(s, step_name, status) ==
    Append(s, [step_name |-> step_name, status |-> status])

\* a slip of the coverage default: the failed stage reports coverage
CoverageDefaultCovered ==
    [coverage_applies |-> "True", coverage_limit |-> Num(0),
     deductible |-> Num(0), copay_percentage |-> Num(0), error |-> TRUE]

\* what the coverage stage substitutes when the oracle call raises
CoverageDefault ==
    [coverage_applies |-> "False", coverage_limit |-> Num(0),
     deductible |-> Num(0), copay_percentage |-> Num(0), error |-> TRUE]

\* a slip of the exclusion default: the failed stage excludes the claim
ExclusionDefaultExcluded ==
    [exclusions_triggered |-> << >>, claim_excluded |-> "True", error |-> TRUE]

\* what the exclusion stage substitutes when the oracle call raises
ExclusionDefault ==
    [exclusions_triggered |-> << >>, claim_excluded |-> "False", error |-> TRUE]

\* a slip of the rules: the second rule is tried only when the first is not
\* triggered (`elif`)
FraudIndicatorsElif(c) ==
    IF c.claimed_amount > HighValueThreshold
      THEN << [indicator_type |-> "amount_anomaly", severity |-> "medium",
               score_contribution |-> HighValueContribution] >>
      ELSE IF c.description_length < MinDescriptionLength
        THEN << [indicator_type |-> "inconsistent_info", severity |-> "low",
                 score_contribution |-> VagueContribution] >>
        ELSE << >>

\* a slip of the rules: the high-value rule weighs as much as the
\* investigation threshold
FraudIndicatorsHeavy(c) ==
    (IF c.claimed_amount > HighValueThreshold
       THEN << [indicator_type |-> "amount_anomaly", severity |-> "medium",
                score_contribution |-> InvestigationThreshold] >>
       ELSE << >>)
    \o
    (IF c.description_length < MinDescriptionLength
       THEN << [indicator_type |-> "inconsistent_info", severity |-> "low",
                score_contribution |-> VagueContribution] >>
       ELSE << >>)

\* the fraud rules, in the order the code evaluates them
FraudIndicators(c) ==
    (IF c.claimed_amount > HighValueThreshold
       THEN << [indicator_type |-> "amount_anomaly", severity |-> "medium",
                score_contribution |-> HighValueContribution] >>
       ELSE << >>)
    \o
    (IF c.description_length < MinDescriptionLength
       THEN << [indicator_type |-> "inconsistent_info", severity |-> "low",
                score_contribution |-> VagueContribution] >>
       ELSE << >>)

\* a slip of the accumulation: `fraud_score = x` in place of `fraud_score += x`
LastContribution(inds) ==
    IF inds = << >> THEN 0 ELSE inds[Len(inds)].score_contribution

RECURSIVE SumContributions(_)
SumContributions(inds) ==
    IF inds = << >> THEN 0
    ELSE Head(inds).score_contribution + SumContributions(Tail(inds))

\* a slip of the thresholds: `>` in place of `>=`
RiskLevelStrict(score) ==
    IF score > HighRiskThreshold THEN "high"
    ELSE IF score > InvestigationThreshold THEN "medium"
    ELSE "low"

RiskLevel(score) ==
    IF score >= HighRiskThreshold THEN "high"
    ELSE IF score >= InvestigationThreshold THEN "medium"
    ELSE "low"

\* the fraud_analysis dict built from the accumulated indicators
FraudSummary(inds) ==
    LET fraud_score == SumContributions(inds)
    IN  [fraud_score |-> Min(fraud_score, MaxScore),
         risk_level |-> RiskLevel(fraud_score),
         requires_investigation |-> (fraud_score >= InvestigationThreshold),
         indicators |-> inds]

FraudAnalysisOf(c) == FraudSummary(FraudIndicators(c))

FraudStepStatus(c) ==
    IF SumContributions(FraudIndicators(c)) >= InvestigationThreshold
      THEN "warning" ELSE "passed"

\* a slip of the guard: `and` in place of `or`
NotEligibleWhenBoth(cov, exc) ==
    (~Truthy(cov.coverage_applies)) /\ Truthy(exc.claim_excluded)

\* the guard of _calculate_payout: not covered, or excluded
NotEligible(cov, exc) ==
    (~Truthy(cov.coverage_applies)) \/ Truthy(exc.claim_excluded)

\* the arithmetic of _calculate_payout raises TypeError on a non-number
PayoutRaises(cov, exc) ==
    /\ ~NotEligible(cov, exc)
    /\ (~cov.coverage_limit.is_num \/ ~cov.deductible.is_num
        \/ ~cov.copay_percentage.is_num)

\* the payout of an ineligible claim
PayoutZero(claimed_amount) ==
    [claimed_amount |-> claimed_amount, eligible_amount |-> 0,
     coverage_limit |-> 0, deductible |-> 0, copay_amount |-> 0,
     recommended_payout |-> 0, eligible |-> FALSE]

\* the payout of a covered, not excluded claim (all fields are numbers)
PayoutOf(claimed_amount, coverage_limit, deductible, copay_pct) ==
    LET eligible == IF coverage_limit > 0
                      THEN Min(claimed_amount, coverage_limit)
                      ELSE claimed_amount
        after_deductible == Max(0, eligible - deductible)
        \* copay_amount and recommended_payout in hundredths of a cent
        copay_x100 == IF copay_pct # 0 THEN after_deductible * copay_pct ELSE 0
        payout_x100 == after_deductible * 100 - copay_x100
    IN  [claimed_amount |-> claimed_amount, eligible_amount |-> eligible,
         coverage_limit |-> coverage_limit, deductible |-> deductible,
         copay_amount |-> RoundCents(copay_x100, 100),
         recommended_payout |-> RoundCents(payout_x100, 100),
         eligible |-> TRUE]

CalculatePayoutOf(c, cov, exc) ==
    IF NotEligible(cov, exc)
      THEN PayoutZero(c.claimed_amount)
      ELSE PayoutOf(c.claimed_amount, cov.coverage_limit.v,
                    cov.deductible.v, cov.copay_percentage.v)

\* is_valid on the oracle path of _generate_recommendation
IsValidOf(cov, exc) ==
    Truthy(cov.coverage_applies) /\ ~Truthy(exc.claim_excluded)

\* a slip of the fallback table: an uncovered claim is sent to review
FallbackReviewsUncovered(fraud, cov, exc) ==
    IF fraud.requires_investigation THEN "investigate"
    ELSE IF ~Truthy(cov.coverage_applies) THEN "review"
    ELSE IF Truthy(exc.claim_excluded) THEN "deny"
    ELSE "review"

\* a slip of the fallback table: the exclusion row is lost
FallbackWithoutExclusionRow(fraud, cov, exc) ==
    IF fraud.requires_investigation THEN "investigate"
    ELSE IF ~Truthy(cov.coverage_applies) THEN "deny"
    ELSE "review"

\* the fallback table of _generate_recommendation
FallbackRecommendation(fraud, cov, exc) ==
    IF fraud.requires_investigation THEN "investigate"
    ELSE IF ~Truthy(cov.coverage_applies) THEN "deny"
    ELSE IF Truthy(exc.claim_excluded) THEN "deny"
    ELSE "review"

\* result.get(key, default)
GetOr(value, default) == IF value = "None" THEN default ELSE value

GetNumOr(value, default) == IF value = None THEN default ELSE value.v

(***************************************************************************)
(* validate: the initial state of the workflow                             *)
(***************************************************************************)
Validate ==
    /\ pc = "idle"
    /\ \E c \in Claims : claim' = c
    /\ pc' = "retrieve_context"
    /\ relevant_clauses' = 0
    /\ coverage_analysis' = None
    /\ exclusion_analysis' = None
    /\ fraud_analysis' = None
    /\ payout_calculation' = None
    /\ steps' = << >>
    /\ is_valid' = FALSE
    /\ recommendation' = "pending"
    /\ confidence' = 0
    /\ reasoning' = ""
    /\ errors' = << >>
    /\ UNCHANGED <<calls, outcome, run, script, first, serviceVars>>

Call(stage, ok, response) ==
    [stage |-> stage, ok |-> ok, response |-> response]

\* the collaborator answers the next external call with c; a repeated call
\* gets the answers of the script, in order
Answered(c) ==
    /\ IF run = 1 THEN TRUE ELSE script[Len(calls) + 1] = c
    /\ calls' = Append(calls, c)

(***************************************************************************)
(* _retrieve_context                                                       *)
(***************************************************************************)
RetrieveContextOk ==
    /\ pc = "retrieve_context"
    /\ \E n \in RetrievedCounts :
         /\ n <= TopK
         /\ relevant_clauses' = n
         /\ Answered(Call("retrieve_context", TRUE, [count |-> n]))
    /\ steps' = AddStep(steps, "retrieve_context", "passed")
    /\ pc' = "analyze_coverage"
    /\ UNCHANGED <<claim, coverage_analysis, exclusion_analysis, fraud_analysis,
                   payout_calculation, is_valid, recommendation, confidence,
                   reasoning, errors, outcome,
                   run, script, first, serviceVars>>

\* a slip of the except branch: the failure is logged as an error step
RetrieveContextFailAsError ==
    /\ pc = "retrieve_context"
    /\ \E e \in RetrievalFailures :
         /\ errors' = Append(errors, e)
         /\ calls' = Append(calls, [stage |-> "retrieve_context",
                                    ok |-> FALSE,
                                    response |-> [failure |-> e]])
    /\ relevant_clauses' = 0
    /\ steps' = AddStep(steps, "retrieve_context", "error")
    /\ pc' = "analyze_coverage"
    /\ UNCHANGED <<claim, coverage_analysis, exclusion_analysis, fraud_analysis,
                   payout_calculation, is_valid, recommendation, confidence,
                   reasoning, outcome,
                   run, script, first, serviceVars>>

RetrieveContextFail ==
    /\ pc = "retrieve_context"
    /\ \E e \in RetrievalFailures :
         /\ errors' = Append(errors, e)
         /\ Answered(Call("retrieve_context", FALSE, [failure |-> e]))
    /\ relevant_clauses' = 0
    /\ steps' = AddStep(steps, "retrieve_context", "warning")
    /\ pc' = "analyze_coverage"
    /\ UNCHANGED <<claim, coverage_analysis, exclusion_analysis, fraud_analysis,
                   payout_calculation, is_valid, recommendation, confidence,
                   reasoning, outcome,
                   run, script, first, serviceVars>>

(***************************************************************************)
(* _analyze_coverage                                                       *)
(***************************************************************************)
AnalyzeCoverageOk ==
    /\ pc = "analyze_coverage"
    /\ \E result \in CoverageResponses :
         /\ steps' = AddStep(steps, "coverage_analysis",
                             IF Truthy(result.coverage_applies)
                               THEN "passed" ELSE "failed")
         /\ coverage_analysis' = result
         /\ Answered(Call("analyze_coverage", TRUE, result))
    /\ pc' = "analyze_exclusions"
    /\ UNCHANGED <<claim, relevant_clauses, exclusion_analysis, fraud_analysis,
                   payout_calculation, is_valid, recommendation, confidence,
                   reasoning, errors, outcome,
                   run, script, first, serviceVars>>

AnalyzeCoverageFail ==
    /\ pc = "analyze_coverage"
    /\ \E e \in OracleFailures :
         /\ errors' = Append(errors, e)
         /\ Answered(Call("analyze_coverage", FALSE, [failure |-> e]))
    /\ steps' = AddStep(steps, "coverage_analysis", "error")
    /\ coverage_analysis' = CoverageDefault
    /\ pc' = "analyze_exclusions"
    /\ UNCHANGED <<claim, relevant_clauses, exclusion_analysis, fraud_analysis,
                   payout_calculation, is_valid, recommendation, confidence,
                   reasoning, outcome,
                   run, script, first, serviceVars>>

(***************************************************************************)
(* _analyze_exclusions                                                     *)
(***************************************************************************)
AnalyzeExclusionsOk ==
    /\ pc = "analyze_exclusions"
    /\ \E result \in ExclusionResponses :
         /\ steps' = AddStep(steps, "exclusion_analysis",
                             IF Truthy(result.claim_excluded)
                               THEN "failed" ELSE "passed")
         /\ exclusion_analysis' = result
         /\ Answered(Call("analyze_exclusions", TRUE, result))
    /\ pc' = "detect_fraud"
    /\ UNCHANGED <<claim, relevant_clauses, coverage_analysis, fraud_analysis,
                   payout_calculation, is_valid, recommendation, confidence,
                   reasoning, errors, outcome,
                   run, script, first, serviceVars>>

AnalyzeExclusionsFail ==
    /\ pc = "analyze_exclusions"
    /\ \E e \in OracleFailures :
         /\ errors' = Append(errors, e)
         /\ Answered(Call("analyze_exclusions", FALSE, [failure |-> e]))
    /\ steps' = AddStep(steps, "exclusion_analysis", "error")
    /\ exclusion_analysis' = ExclusionDefault
    /\ pc' = "detect_fraud"
    /\ UNCHANGED <<claim, relevant_clauses, coverage_analysis, fraud_analysis,
                   payout_calculation, is_valid, recommendation, confidence,
                   reasoning, outcome,
                   run, script, first, serviceVars>>

(***************************************************************************)
(* _detect_fraud                                                           *)
(***************************************************************************)
DetectFraud ==
    /\ pc = "detect_fraud"
    /\ fraud_analysis' = FraudAnalysisOf(claim)
    /\ steps' = AddStep(steps, "fraud_detection", FraudStepStatus(claim))
    /\ pc' = "calculate_payout"
    /\ UNCHANGED <<claim, relevant_clauses, coverage_analysis,
                   exclusion_analysis, payout_calculation, is_valid,
                   recommendation, confidence, reasoning, errors, calls,
                   outcome,
                   run, script, first, serviceVars>>

(***************************************************************************)
(* _calculate_payout; an exception of a node leaves graph.ainvoke and is   *)
(* wrapped by validate into ClaimValidationError                           *)
(***************************************************************************)
WorkflowFailed(stage, cause) ==
    [kind |-> "error", type |-> "ClaimValidationError",
     claim_id |-> claim.claim_id, stage |-> stage, cause |-> cause]

CalculatePayout ==
    /\ pc = "calculate_payout"
    /\ ~PayoutRaises(coverage_analysis, exclusion_analysis)
    /\ payout_calculation' =
         CalculatePayoutOf(claim, coverage_analysis, exclusion_analysis)
    /\ steps' = AddStep(steps, "payout_calculation", "passed")
    /\ pc' = "generate_recommendation"
    /\ UNCHANGED <<claim, relevant_clauses, coverage_analysis,
                   exclusion_analysis, fraud_analysis, is_valid,
                   recommendation, confidence, reasoning, errors, calls,
                   outcome,
                   run, script, first, serviceVars>>

CalculatePayoutRaise ==
    /\ pc = "calculate_payout"
    /\ PayoutRaises(coverage_analysis, exclusion_analysis)
    /\ outcome' = WorkflowFailed("calculate_payout", "TypeError")
    /\ pc' = "raised"
    /\ UNCHANGED <<claim, relevant_clauses, coverage_analysis,
                   exclusion_analysis, fraud_analysis, payout_calculation,
                   steps, is_valid, recommendation, confidence, reasoning,
                   errors, calls,
                   run, script, first, serviceVars>>

(***************************************************************************)
(* _generate_recommendation                                                *)
(***************************************************************************)
GenerateRecommendationOk ==
    /\ pc = "generate_recommendation"
    /\ \E result \in RecommendationResponses :
         /\ recommendation' = GetOr(result.recommendation, "review")
         /\ confidence' = GetNumOr(result.confidence, DefaultConfidence)
         /\ reasoning' = result.reasoning_summary
         /\ Answered(Call("generate_recommendation", TRUE, result))
    /\ is_valid' = IsValidOf(coverage_analysis, exclusion_analysis)
    /\ pc' = "assemble"
    /\ UNCHANGED <<claim, relevant_clauses, coverage_analysis,
                   exclusion_analysis, fraud_analysis, payout_calculation,
                   steps, errors, outcome,
                   run, script, first, serviceVars>>

GenerateRecommendationFail ==
    /\ pc = "generate_recommendation"
    /\ \E e \in OracleFailures :
         /\ errors' = Append(errors, e)
         /\ Answered(Call("generate_recommendation", FALSE, [failure |-> e]))
    /\ recommendation' = FallbackRecommendation(fraud_analysis,
                             coverage_analysis, exclusion_analysis)
    /\ confidence' = FallbackConfidence
    /\ reasoning' = FallbackReasoning
    /\ is_valid' = FALSE
    /\ pc' = "assemble"
    /\ UNCHANGED <<claim, relevant_clauses, coverage_analysis,
                   exclusion_analysis, fraud_analysis, payout_calculation,
                   steps, outcome,
                   run, script, first, serviceVars>>

(***************************************************************************)
(* validate: the result is built from the final state, outside the try     *)
(***************************************************************************)
\* e["exclusion_id"] raises KeyError on an entry without that key
ExclusionIdsRaise(exc) ==
    \E i \in 1..Len(exc.exclusions_triggered) :
        ~exc.exclusions_triggered[i].has_exclusion_id

\* confidence_score: float = Field(ge=0, le=1)
ConfidenceAccepted(c) == c >= 0 /\ c <= 100

BuildResult(validation_id) ==
    [kind |-> "result",
     validation_id |-> validation_id,
     is_valid |-> is_valid,
     recommendation |-> recommendation,
     confidence_score |-> confidence,
     coverage_applies |-> Truthy(coverage_analysis.coverage_applies),
     exclusion_details |-> exclusion_analysis.exclusions_triggered,
     payout_calculation |-> payout_calculation,
     fraud_analysis |-> fraud_analysis,
     validation_steps |-> steps,
     relevant_clauses |-> relevant_clauses,
     reasoning_summary |-> reasoning]

AssembleResult ==
    /\ pc = "assemble"
    /\ ~ExclusionIdsRaise(exclusion_analysis)
    /\ ConfidenceAccepted(confidence)
    /\ \E validation_id \in ValidationIds :
         outcome' = BuildResult(validation_id)
    /\ pc' = "returned"
    /\ UNCHANGED <<claim, relevant_clauses, coverage_analysis,
                   exclusion_analysis, fraud_analysis, payout_calculation,
                   steps, is_valid, recommendation, confidence, reasoning,
                   errors, calls,
                   run, script, first, serviceVars>>

AssembleRaise ==
    /\ pc = "assemble"
    /\ \/ /\ ExclusionIdsRaise(exclusion_analysis)
          /\ outcome' = [kind |-> "error", type |-> "KeyError",
                         claim_id |-> "", stage |-> "assemble",
                         cause |-> "KeyError"]
       \/ /\ ~ExclusionIdsRaise(exclusion_analysis)
          /\ ~ConfidenceAccepted(confidence)
          /\ outcome' = [kind |-> "error", type |-> "ValidationError",
                         claim_id |-> "", stage |-> "assemble",
                         cause |-> "ValidationError"]
    /\ pc' = "raised"
    /\ UNCHANGED <<claim, relevant_clauses, coverage_analysis,
                   exclusion_analysis, fraud_analysis, payout_calculation,
                   steps, is_valid, recommendation, confidence, reasoning,
                   errors, calls,
                   run, script, first, serviceVars>>

(***************************************************************************)
(* validate called a second time on the same validator, with the same      *)
(* claim and policy and collaborators stubbed to repeat their answers      *)
(***************************************************************************)
\* a slip of the initial state: the step list of the previous run is reused
RevalidateKeepingSteps ==
    /\ pc = "returned"
    /\ run = 1
    /\ run' = 2
    /\ first' = outcome
    /\ script' = calls
    /\ pc' = "retrieve_context"
    /\ relevant_clauses' = 0
    /\ coverage_analysis' = None
    /\ exclusion_analysis' = None
    /\ fraud_analysis' = None
    /\ payout_calculation' = None
    /\ is_valid' = FALSE
    /\ recommendation' = "pending"
    /\ confidence' = 0
    /\ reasoning' = ""
    /\ errors' = << >>
    /\ calls' = << >>
    /\ outcome' = [kind |-> "none"]
    /\ UNCHANGED <<claim, steps, serviceVars>>

Revalidate ==
    /\ pc = "returned"
    /\ run = 1
    /\ run' = 2
    /\ first' = outcome
    /\ script' = calls
    /\ pc' = "retrieve_context"
    /\ relevant_clauses' = 0
    /\ coverage_analysis' = None
    /\ exclusion_analysis' = None
    /\ fraud_analysis' = None
    /\ payout_calculation' = None
    /\ steps' = << >>
    /\ is_valid' = FALSE
    /\ recommendation' = "pending"
    /\ confidence' = 0
    /\ reasoning' = ""
    /\ errors' = << >>
    /\ calls' = << >>
    /\ outcome' = [kind |-> "none"]
    /\ UNCHANGED <<claim, serviceVars>>

Next ==
    \/ Validate
    \/ RetrieveContextOk
    \/ RetrieveContextFail
    \/ AnalyzeCoverageOk
    \/ AnalyzeCoverageFail
    \/ AnalyzeExclusionsOk
    \/ AnalyzeExclusionsFail
    \/ DetectFraud
    \/ CalculatePayout
    \/ CalculatePayoutRaise
    \/ GenerateRecommendationOk
    \/ GenerateRecommendationFail
    \/ AssembleResult
    \/ AssembleRaise

Spec == Init /\ [][Next]_vars

NextRerun ==
    \/ Next
    \/ Revalidate

\* one validator serving the same request twice
RerunSpec == Init /\ [][NextRerun]_vars

(***************************************************************************)
(* The score summary of _detect_fraud (validator.py:370-383) applied to    *)
(* the indicator lists a larger rule set could accumulate                  *)
(***************************************************************************)
IndicatorLists ==
    SeqsUpTo([indicator_type : {"amount_anomaly"}, severity : {"medium"},
              score_contribution : ScoreContributions], MaxIndicators)

SummarizeIndicators ==
    /\ pc = "idle"
    /\ \E inds \in IndicatorLists : fraud_analysis' = FraudSummary(inds)
    /\ UNCHANGED <<pc, claim, relevant_clauses, coverage_analysis,
                   exclusion_analysis, payout_calculation, steps, is_valid,
                   recommendation, confidence, reasoning, errors, calls,
                   outcome,
                   run, script, first, serviceVars>>

ScoringSpec == Init /\ [][SummarizeIndicators]_vars

(***************************************************************************)
(* LLMService (app/ai/llm.py). A provider answer is a text, modelled as a  *)
(* sequence of pieces: a code fence, the word json, white space, or a      *)
(* complete JSON document.                                                 *)
(***************************************************************************)
MaxTextLen == 5

\* the three backquotes that open or close a code block
Fence == "fence"

JsonWord == "json"

Space == " "

\* the JSON documents a provider can write
JsonTexts == {"{}", "[]"}

Pieces == {Fence, JsonWord, Space} \cup JsonTexts

ResponseTexts == SeqsUpTo(Pieces, MaxTextLen)

ProviderErrors == {"timeout", "rate_limited"}

\* settings read by _initialize_providers
ProviderSettings ==
    [LLM_PROVIDER : {"groq", "google", "ollama", "azure"},
     GOOGLE_API_KEY : BOOLEAN, GROQ_API_KEY : BOOLEAN]

\* str.strip() on the left and on the right
RECURSIVE LStrip(_)
LStrip(t) ==
    IF t # << >> /\ Head(t) = Space THEN LStrip(Tail(t)) ELSE t

RECURSIVE RStrip(_)
RStrip(t) ==
    IF t # << >> /\ t[Len(t)] = Space
      THEN RStrip(SubSeq(t, 1, Len(t) - 1)) ELSE t

Strip(t) == RStrip(LStrip(t))

StartsWith(t, prefix) ==
    Len(t) >= Len(prefix) /\ SubSeq(t, 1, Len(prefix)) = prefix

EndsWith(t, suffix) ==
    Len(t) >= Len(suffix)
    /\ SubSeq(t, Len(t) - Len(suffix) + 1, Len(t)) = suffix

\* a slip of the cleaning: the closing fence is left in place
CleanResponseLeadingOnly(t) ==
    LET r0 == Strip(t)
        r1 == IF StartsWith(r0, <<Fence, JsonWord>>)
                THEN SubSeq(r0, 3, Len(r0)) ELSE r0
        r2 == IF StartsWith(r1, <<Fence>>) THEN Tail(r1) ELSE r1
    IN  Strip(r2)

\* the cleaning of invoke_with_json: strip, drop a leading fence with the
\* word json, drop a leading fence, drop a trailing fence, strip
CleanResponse(t) ==
    LET r0 == Strip(t)
        r1 == IF StartsWith(r0, <<Fence, JsonWord>>)
                THEN SubSeq(r0, 3, Len(r0)) ELSE r0
        r2 == IF StartsWith(r1, <<Fence>>) THEN Tail(r1) ELSE r1
        r3 == IF EndsWith(r2, <<Fence>>)
                THEN SubSeq(r2, 1, Len(r2) - 1) ELSE r2
    IN  Strip(r3)

\* json.loads accepts exactly one JSON document
JsonDecodes(t) == Len(t) = 1 /\ t[1] \in JsonTexts

\* the Python value of a JSON document
JsonLoads(t) ==
    IF t[1] = "{}" THEN [type |-> "dict", size |-> 0]
    ELSE [type |-> "list", size |-> 0]

Invocation(role, name, ok, detail) ==
    [role |-> role, provider |-> name, ok |-> ok, detail |-> detail]

\* LLMService.__init__ with settings of a known provider
InitializeProviders ==
    /\ llm_pc = "unconstructed"
    /\ \E settings \in ProviderSettings :
         /\ settings.LLM_PROVIDER \in {"groq", "google", "ollama"}
         /\ provider' = settings.LLM_PROVIDER
         /\ fallback_provider' =
              IF settings.LLM_PROVIDER = "groq" /\ settings.GOOGLE_API_KEY
                THEN "google"
              ELSE IF settings.LLM_PROVIDER = "google" /\ settings.GROQ_API_KEY
                THEN "groq"
              ELSE "none"
    /\ llm_pc' = "ready"
    /\ llm_outcome' = [kind |-> "none"]
    /\ UNCHANGED <<entry, invocations, nonLlmVars>>

\* LLMService.__init__ with an unknown provider: no service is built
InitializeProvidersRaise ==
    /\ llm_pc = "unconstructed"
    /\ \E settings \in ProviderSettings :
         settings.LLM_PROVIDER \notin {"groq", "google", "ollama"}
    /\ llm_outcome' = [kind |-> "error", type |-> "ValueError"]
    /\ UNCHANGED <<llm_pc, provider, fallback_provider, entry, invocations,
                   nonLlmVars>>

\* a caller enters invoke_sync, directly or through invoke_with_json
InvokeSync ==
    /\ llm_pc \in {"ready", "returned", "raised"}
    /\ \E method \in {"invoke_sync", "invoke_with_json"} : entry' = method
    /\ invocations' = << >>
    /\ llm_outcome' = [kind |-> "none"]
    /\ llm_pc' = "primary"
    /\ UNCHANGED <<provider, fallback_provider, nonLlmVars>>

\* where the call goes once invoke_sync has a text
AfterInvokeSync(text) ==
    IF entry = "invoke_with_json"
      THEN /\ llm_pc' = "clean"
           /\ llm_outcome' = [kind |-> "none"]
      ELSE /\ llm_pc' = "returned"
           /\ llm_outcome' = [kind |-> "text", value |-> text]

\* self.model.invoke(messages) answers
ModelInvokeOk ==
    /\ llm_pc = "primary"
    /\ \E text \in ResponseTexts :
         /\ invocations' =
              Append(invocations, Invocation("primary", provider, TRUE, text))
         /\ AfterInvokeSync(text)
    /\ UNCHANGED <<provider, fallback_provider, entry, nonLlmVars>>

\* self.model.invoke(messages) raises
ModelInvokeRaise ==
    /\ llm_pc = "primary"
    /\ \E e \in ProviderErrors :
         /\ invocations' =
              Append(invocations, Invocation("primary", provider, FALSE, e))
         /\ IF fallback_provider # "none"
              THEN /\ llm_pc' = "fallback"
                   /\ llm_outcome' = [kind |-> "none"]
              ELSE /\ llm_pc' = "raised"
                   /\ llm_outcome' = [kind |-> "error", type |-> e]
    /\ UNCHANGED <<provider, fallback_provider, entry, nonLlmVars>>

\* the fallback provider answers
FallbackInvokeOk ==
    /\ llm_pc = "fallback"
    /\ \E text \in ResponseTexts :
         /\ invocations' =
              Append(invocations,
                     Invocation("fallback", fallback_provider, TRUE, text))
         /\ AfterInvokeSync(text)
    /\ UNCHANGED <<provider, fallback_provider, entry, nonLlmVars>>

\* a slip of the last line: the fallback's exception is raised
FallbackInvokeRaiseOwn ==
    /\ llm_pc = "fallback"
    /\ \E fe \in ProviderErrors :
         /\ invocations' =
              Append(invocations,
                     Invocation("fallback", fallback_provider, FALSE, fe))
         /\ llm_outcome' = [kind |-> "error", type |-> fe]
    /\ llm_pc' = "raised"
    /\ UNCHANGED <<provider, fallback_provider, entry, nonLlmVars>>

\* the fallback provider raises too: the bare `raise` re-raises the
\* exception of the primary provider
FallbackInvokeRaise ==
    /\ llm_pc = "fallback"
    /\ \E fe \in ProviderErrors :
         invocations' =
              Append(invocations,
                     Invocation("fallback", fallback_provider, FALSE, fe))
    /\ llm_outcome' = [kind |-> "error", type |-> invocations[1].detail]
    /\ llm_pc' = "raised"
    /\ UNCHANGED <<provider, fallback_provider, entry, nonLlmVars>>

\* invoke_with_json after invoke_sync returned: clean the text and parse it
InvokeWithJsonParse ==
    /\ llm_pc = "clean"
    /\ LET response == CleanResponse(invocations[Len(invocations)].detail)
       IN  IF JsonDecodes(response)
             THEN /\ llm_outcome' = [kind |-> "json", value |-> JsonLoads(response)]
                  /\ llm_pc' = "returned"
             ELSE /\ llm_outcome' = [kind |-> "error", type |-> "ValueError"]
                  /\ llm_pc' = "raised"
    /\ UNCHANGED <<provider, fallback_provider, entry, invocations,
                   nonLlmVars>>

LLMNext ==
    \/ InitializeProviders
    \/ InitializeProvidersRaise
    \/ InvokeSync
    \/ ModelInvokeOk
    \/ ModelInvokeRaise
    \/ FallbackInvokeOk
    \/ FallbackInvokeRaise
    \/ InvokeWithJsonParse

LLMSpec == Init /\ [][LLMNext]_vars

(***************************************************************************)
(* BaseStore (app/storage/base.py): a dict of entities kept in memory and  *)
(* a JSON file rewritten whole by every save and delete. A dict is a       *)
(* function from the ids it holds.                                         *)
(***************************************************************************)
EntityIds == {"a", "b"}

Revisions == {1, 2}

Entities == [id : EntityIds, revision : Revisions]

EmptyDict == [k \in {} |-> 0]

\* d[key] = value
DictSet(d, key, value) ==
    [k \in (DOMAIN d) \cup {key} |-> IF k = key THEN value ELSE d[k]]

\* del d[key]
DictDel(d, key) == [k \in (DOMAIN d) \ {key} |-> d[k]]

\* _serialize and _deserialize of a concrete store
Serialize(entity) ==
    [id |-> entity.id, revision |-> entity.revision, format |-> "json"]

Deserialize(data) == [id |-> data.id, revision |-> data.revision]

SerializeAll(d) == [k \in DOMAIN d |-> Serialize(d[k])]

JsonFile(data) == [kind |-> "json", data |-> data]

\* what open(path, 'w') leaves when json.dump raises before it is done
TruncatedFile == [kind |-> "truncated"]

\* _load_data: a missing or unreadable file reads as the empty dict
LoadData(f) == IF f.kind = "json" THEN f.data ELSE EmptyDict

\* _load_all: the file is read once, on the first operation
LoadAll ==
    IF loaded THEN cache
    ELSE LET data == LoadData(file)
         IN  [k \in DOMAIN data |-> Deserialize(data[k])]

\* how _save_data can fail: open raises and the file is untouched, or
\* json.dump raises after open truncated the file
WriteFailures == {"open_failed", "dump_failed"}

FileAfterFailure(failure) ==
    IF failure = "open_failed" THEN file ELSE TruncatedFile

\* BaseStore.__init__ in a later process over the same data directory
NewStore ==
    /\ loaded
    /\ cache' = EmptyDict
    /\ loaded' = FALSE
    /\ store_result' = [op |-> "init", kind |-> "returned", value |-> "none"]
    /\ UNCHANGED <<file, written, nonStoreVars>>

Save ==
    /\ \E entity \in Entities :
         LET updated == DictSet(LoadAll, entity.id, entity)
         IN  /\ cache' = updated
             /\ file' = JsonFile(SerializeAll(updated))
             /\ written' = SerializeAll(updated)
             /\ store_result' = [op |-> "save", kind |-> "returned",
                                 value |-> entity.id]
    /\ loaded' = TRUE
    /\ UNCHANGED nonStoreVars

\* save when _save_data raises: the dict already holds the entity
SaveRaise ==
    /\ \E entity \in Entities, failure \in WriteFailures :
         /\ cache' = DictSet(LoadAll, entity.id, entity)
         /\ file' = FileAfterFailure(failure)
         /\ store_result' = [op |-> "save", kind |-> "raised",
                             value |-> failure]
    /\ loaded' = TRUE
    /\ UNCHANGED <<written, nonStoreVars>>

\* delete of an id the dict does not hold
DeleteAbsent ==
    /\ \E entity_id \in EntityIds :
         /\ entity_id \notin DOMAIN LoadAll
         /\ store_result' = [op |-> "delete", kind |-> "returned",
                             value |-> "False"]
    /\ cache' = LoadAll
    /\ loaded' = TRUE
    /\ UNCHANGED <<file, written, nonStoreVars>>

Delete ==
    /\ \E entity_id \in EntityIds :
         /\ entity_id \in DOMAIN LoadAll
         /\ LET remaining == DictDel(LoadAll, entity_id)
            IN  /\ cache' = remaining
                /\ file' = JsonFile(SerializeAll(remaining))
                /\ written' = SerializeAll(remaining)
         /\ store_result' = [op |-> "delete", kind |-> "returned",
                             value |-> "True"]
    /\ loaded' = TRUE
    /\ UNCHANGED nonStoreVars

\* delete when _save_data raises: the dict already lost the entity
DeleteRaise ==
    /\ \E entity_id \in EntityIds, failure \in WriteFailures :
         /\ entity_id \in DOMAIN LoadAll
         /\ cache' = DictDel(LoadAll, entity_id)
         /\ file' = FileAfterFailure(failure)
         /\ store_result' = [op |-> "delete", kind |-> "raised",
                             value |-> failure]
    /\ loaded' = TRUE
    /\ UNCHANGED <<written, nonStoreVars>>

StoreNext ==
    \/ NewStore
    \/ Save
    \/ SaveRaise
    \/ DeleteAbsent
    \/ Delete
    \/ DeleteRaise

StoreSpec == Init /\ [][StoreNext]_vars

(***************************************************************************)
(* PolicyExtractor.extract_full_policy (app/ai/extractor.py): three        *)
(* extractions awaited together with asyncio.gather(return_exceptions)     *)
(***************************************************************************)
MaxItems == 2

\* clauses, coverage_items, exclusions: the order of the gather arguments
ExtractionTasks == <<"clauses", "coverage", "exclusions">>

TaskNames == {ExtractionTasks[i] : i \in 1..Len(ExtractionTasks)}

\* an item of the oracle's list builds a model object or raises and is
\* skipped
OracleItems == {"item_1", "item_2", "unparsable"}

ItemLists == SeqsUpTo(OracleItems, MaxItems)

ExtractionFailures == {"unreachable", "invalid_json"}

IsParsable(item) == item # "unparsable"

\* the objects an extraction returns: one per item that parses, in order
ExtractedFrom(items) == SelectSeq(items, IsParsable)

PendingTask == [status |-> "pending", answer |-> << >>, value |-> << >>]

\* the await of gather is over when every extraction returned or raised
AllFinished == \A t \in TaskNames : tasks[t].status # "pending"

\* the value gather hands back for a task: its list, or [] for an exception
GatheredList(t) ==
    IF tasks[t].status = "failed" THEN << >> ELSE tasks[t].value

\* the errors list: one entry per exception, in the order of the arguments
RECURSIVE GatheredErrors(_)
GatheredErrors(i) ==
    IF i > Len(ExtractionTasks) THEN << >>
    ELSE (IF tasks[ExtractionTasks[i]].status = "failed"
            THEN << [extraction |-> ExtractionTasks[i],
                     cause |-> tasks[ExtractionTasks[i]].value] >>
            ELSE << >>)
         \o GatheredErrors(i + 1)

\* extract_full_policy is entered: the three coroutines are created and
\* each awaits the oracle
ExtractFullPolicy ==
    /\ extract_pc \in {"idle", "returned", "raised"}
    /\ extract_pc' = "gathering"
    /\ tasks' = [t \in TaskNames |-> PendingTask]
    /\ completed' = << >>
    /\ policy' = [kind |-> "none"]
    /\ UNCHANGED nonExtractorVars

\* extract_clauses, extract_coverage or extract_exclusions gets its answer
ExtractOk(t) ==
    /\ extract_pc = "gathering"
    /\ tasks[t].status = "pending"
    /\ \E items \in ItemLists :
         tasks' = [tasks EXCEPT
                     ![t] = [status |-> "done", answer |-> items,
                             value |-> ExtractedFrom(items)]]
    /\ completed' = Append(completed, t)
    /\ UNCHANGED <<extract_pc, policy, nonExtractorVars>>

\* the oracle call of an extraction raises: PolicyExtractionError
ExtractRaise(t) ==
    /\ extract_pc = "gathering"
    /\ tasks[t].status = "pending"
    /\ \E e \in ExtractionFailures :
         tasks' = [tasks EXCEPT
                     ![t] = [status |-> "failed", answer |-> << >>,
                             value |-> e]]
    /\ completed' = Append(completed, t)
    /\ UNCHANGED <<extract_pc, policy, nonExtractorVars>>

\* a slip of the gather: without return_exceptions the first failure is
\* raised and wrapped into PolicyExtractionError
BuildPolicyOrRaise ==
    /\ extract_pc = "gathering"
    /\ AllFinished
    /\ IF \E t \in TaskNames : tasks[t].status = "failed"
         THEN /\ policy' = [kind |-> "error", type |-> "PolicyExtractionError"]
              /\ extract_pc' = "raised"
         ELSE /\ policy' = [kind |-> "policy",
                            clauses |-> GatheredList("clauses"),
                            coverage_items |-> GatheredList("coverage"),
                            exclusions |-> GatheredList("exclusions"),
                            errors |-> GatheredErrors(1)]
              /\ extract_pc' = "returned"
    /\ UNCHANGED <<tasks, completed, nonExtractorVars>>

\* gather returns; the Policy is built from the three values
BuildPolicy ==
    /\ extract_pc = "gathering"
    /\ AllFinished
    /\ policy' = [kind |-> "policy",
                  clauses |-> GatheredList("clauses"),
                  coverage_items |-> GatheredList("coverage"),
                  exclusions |-> GatheredList("exclusions"),
                  errors |-> GatheredErrors(1)]
    /\ extract_pc' = "returned"
    /\ UNCHANGED <<tasks, completed, nonExtractorVars>>

ExtractorNext ==
    \/ ExtractFullPolicy
    \/ \E t \in TaskNames : ExtractOk(t)
    \/ \E t \in TaskNames : ExtractRaise(t)
    \/ BuildPolicy

ExtractorSpec == Init /\ [][ExtractorNext]_vars

(***************************************************************************)
(* Two validate calls in flight on one ClaimValidator. validations[r] is   *)
(* the ValidationState dict of call r (validator.py:518-535) together with *)
(* what the call has been answered and what it returned; the validator,    *)
(* the LLM and embedding services and their thread pools hold no state of  *)
(* a call.                                                                 *)
(***************************************************************************)
RunIds == {1, 2}

\* the claims of the two calls
RunClaims ==
    << [claim_id |-> "clm_1", claimed_amount |-> 1500000,
        description_length |-> 50],
       [claim_id |-> "clm_2", claimed_amount |-> 6000000,
        description_length |-> 10] >>

\* the oracle answers drawn for concurrent calls
CoverageSample ==
    {r \in CoverageResponses :
        \/ /\ r.coverage_applies = "True"
           /\ r.coverage_limit \in {Num(5000000), Malformed}
           /\ r.deductible = Num(50000)
           /\ r.copay_percentage = Num(20)
        \/ r.coverage_applies = "False"}

ExclusionSample ==
    {r \in ExclusionResponses :
        \/ r.exclusions_triggered = << >> /\ r.claim_excluded = "False"
        \/ /\ Len(r.exclusions_triggered) = 1
           /\ r.exclusions_triggered[1].exception_applies = "False"
           /\ r.claim_excluded = "True"}

RecommendationSample ==
    {r \in RecommendationResponses :
        r.recommendation \in {"approve", "deny"} /\ r.confidence = Num(90)}

AnswersAt(stage) ==
    IF stage = "retrieve_context"
      THEN {Call(stage, TRUE, [count |-> TopK])}
           \cup {Call(stage, FALSE, [failure |-> e]) : e \in RetrievalFailures}
    ELSE {Call(stage, TRUE, r) :
             r \in (IF stage = "analyze_coverage" THEN CoverageSample
                    ELSE IF stage = "analyze_exclusions" THEN ExclusionSample
                    ELSE RecommendationSample)}
         \cup {Call(stage, FALSE, [failure |-> "unreachable"])}

IdleRun ==
    [pc |-> "idle", claim |-> NoClaim, relevant_clauses |-> 0,
     coverage_analysis |-> None, exclusion_analysis |-> None,
     fraud_analysis |-> None, payout_calculation |-> None, steps |-> << >>,
     is_valid |-> FALSE, recommendation |-> "pending", confidence |-> 0,
     reasoning |-> "", errors |-> << >>, awaiting |-> FALSE,
     calls |-> << >>, outcome |-> [kind |-> "none"]]

\* initial_state of validate
StartRun(c) == [IdleRun EXCEPT !.pc = "retrieve_context", !.claim = c]

\* the stages that await a collaborator
AwaitsCollaborator(st) ==
    st.pc \in {"retrieve_context", "analyze_coverage", "analyze_exclusions",
               "generate_recommendation"}

\* the node of the current stage resumes with the answer a
ApplyAnswer(st, a) ==
    LET resumed == [st EXCEPT !.calls = Append(@, a), !.awaiting = FALSE,
                              !.errors = IF a.ok THEN @
                                         ELSE Append(@, a.response.failure)]
    IN  IF st.pc = "retrieve_context" THEN
            [resumed EXCEPT
               !.relevant_clauses = IF a.ok THEN a.response.count ELSE 0,
               !.steps = AddStep(@, "retrieve_context",
                                 IF a.ok THEN "passed" ELSE "warning"),
               !.pc = "analyze_coverage"]
        ELSE IF st.pc = "analyze_coverage" THEN
            LET result == IF a.ok THEN a.response ELSE CoverageDefault
            IN  [resumed EXCEPT
                   !.coverage_analysis = result,
                   !.steps = AddStep(@, "coverage_analysis",
                                IF ~a.ok THEN "error"
                                ELSE IF Truthy(result.coverage_applies)
                                  THEN "passed" ELSE "failed"),
                   !.pc = "analyze_exclusions"]
        ELSE IF st.pc = "analyze_exclusions" THEN
            LET result == IF a.ok THEN a.response ELSE ExclusionDefault
            IN  [resumed EXCEPT
                   !.exclusion_analysis = result,
                   !.steps = AddStep(@, "exclusion_analysis",
                                IF ~a.ok THEN "error"
                                ELSE IF Truthy(result.claim_excluded)
                                  THEN "failed" ELSE "passed"),
                   !.pc = "detect_fraud"]
        ELSE IF a.ok THEN
            [resumed EXCEPT
               !.recommendation = GetOr(a.response.recommendation, "review"),
               !.confidence = GetNumOr(a.response.confidence,
                                       DefaultConfidence),
               !.reasoning = a.response.reasoning_summary,
               !.is_valid = IsValidOf(st.coverage_analysis,
                                      st.exclusion_analysis),
               !.pc = "assemble"]
        ELSE
            [resumed EXCEPT
               !.recommendation =
                   FallbackRecommendation(st.fraud_analysis,
                       st.coverage_analysis, st.exclusion_analysis),
               !.confidence = FallbackConfidence,
               !.reasoning = FallbackReasoning,
               !.is_valid = FALSE,
               !.pc = "assemble"]

\* _detect_fraud and _calculate_payout on the state of one call
LocalStage(st) ==
    IF st.pc = "detect_fraud" THEN
        [st EXCEPT
           !.fraud_analysis = FraudAnalysisOf(st.claim),
           !.steps = AddStep(@, "fraud_detection", FraudStepStatus(st.claim)),
           !.pc = "calculate_payout"]
    ELSE IF PayoutRaises(st.coverage_analysis, st.exclusion_analysis) THEN
        [st EXCEPT
           !.outcome = [kind |-> "error", type |-> "ClaimValidationError",
                        claim_id |-> st.claim.claim_id,
                        stage |-> "calculate_payout", cause |-> "TypeError"],
           !.pc = "raised"]
    ELSE
        [st EXCEPT
           !.payout_calculation =
               CalculatePayoutOf(st.claim, st.coverage_analysis,
                                 st.exclusion_analysis),
           !.steps = AddStep(@, "payout_calculation", "passed"),
           !.pc = "generate_recommendation"]

\* the result validate builds from the final state of one call
AssembleRun(st, validation_id) ==
    IF ExclusionIdsRaise(st.exclusion_analysis) THEN
        [st EXCEPT
           !.outcome = [kind |-> "error", type |-> "KeyError",
                        claim_id |-> "", stage |-> "assemble",
                        cause |-> "KeyError"],
           !.pc = "raised"]
    ELSE IF ~ConfidenceAccepted(st.confidence) THEN
        [st EXCEPT
           !.outcome = [kind |-> "error", type |-> "ValidationError",
                        claim_id |-> "", stage |-> "assemble",
                        cause |-> "ValidationError"],
           !.pc = "raised"]
    ELSE
        [st EXCEPT
           !.outcome =
               [kind |-> "result",
                validation_id |-> validation_id,
                is_valid |-> st.is_valid,
                recommendation |-> st.recommendation,
                confidence_score |-> st.confidence,
                coverage_applies |-> Truthy(st.coverage_analysis.coverage_applies),
                exclusion_details |-> st.exclusion_analysis.exclusions_triggered,
                payout_calculation |-> st.payout_calculation,
                fraud_analysis |-> st.fraud_analysis,
                validation_steps |-> st.steps,
                relevant_clauses |-> st.relevant_clauses,
                reasoning_summary |-> st.reasoning],
           !.pc = "returned"]

\* a slip of the state: the step list is one object shared by all calls
\* (created once, not in initial_state)
AdvanceSharingSteps(r, st) ==
    [q \in RunIds |->
        IF q = r THEN st ELSE [validations[q] EXCEPT !.steps = st.steps]]

\* call r moves on: only the state dict of that call changes
Advance(r, st) == [validations EXCEPT ![r] = st]

ValidateRun(r) ==
    /\ validations[r].pc = "idle"
    /\ validations' = Advance(r, StartRun(RunClaims[r]))
    /\ UNCHANGED nonConcurrentVars

\* the call of the stage is handed to the thread pool of its service
SubmitCall(r) ==
    /\ AwaitsCollaborator(validations[r])
    /\ ~validations[r].awaiting
    /\ validations' = Advance(r, [validations[r] EXCEPT !.awaiting = TRUE])
    /\ UNCHANGED nonConcurrentVars

\* the collaborator answers the outstanding call of r, or the call fails
CollaboratorAnswers(r) ==
    /\ AwaitsCollaborator(validations[r])
    /\ validations[r].awaiting
    /\ \E a \in AnswersAt(validations[r].pc) :
         validations' = Advance(r, ApplyAnswer(validations[r], a))
    /\ UNCHANGED nonConcurrentVars

RunLocalStage(r) ==
    /\ validations[r].pc \in {"detect_fraud", "calculate_payout"}
    /\ validations' = Advance(r, LocalStage(validations[r]))
    /\ UNCHANGED nonConcurrentVars

ReturnRun(r) ==
    /\ validations[r].pc = "assemble"
    /\ \E validation_id \in ValidationIds :
         validations' = Advance(r, AssembleRun(validations[r], validation_id))
    /\ UNCHANGED nonConcurrentVars

ConcurrentNext ==
    \/ \E r \in RunIds : ValidateRun(r)
    \/ \E r \in RunIds : SubmitCall(r)
    \/ \E r \in RunIds : CollaboratorAnswers(r)
    \/ \E r \in RunIds : RunLocalStage(r)
    \/ \E r \in RunIds : ReturnRun(r)

ConcurrentSpec == Init /\ [][ConcurrentNext]_vars

(***************************************************************************)
(* Vocabulary of the properties                                            *)
(***************************************************************************)
Returned == outcome.kind = "result"

Raised == outcome.kind = "error"

OracleStages == {"analyze_coverage", "analyze_exclusions",
                 "generate_recommendation"}

\* the external call of the stage was made and failed
CallFailed(stage) ==
    \E i \in 1..Len(calls) : calls[i].stage = stage /\ ~calls[i].ok

CallSucceeded(stage) ==
    \E i \in 1..Len(calls) : calls[i].stage = stage /\ calls[i].ok

StepsWithStatus(s, status) == {i \in 1..Len(s) : s[i].status = status}

StepNamesOf(s) == [i \in 1..Len(s) |-> s[i].step_name]

IsPrefix(s, t) == Len(s) <= Len(t) /\ s = SubSeq(t, 1, Len(s))

\* an exclusion entry that triggers without an exception
UnexceptedEntry(exc) ==
    \E i \in 1..Len(exc.exclusions_triggered) :
        exc.exclusions_triggered[i].exception_applies = "False"

\* the stage sequence the audit trail is expected to follow
ExpectedStepNames ==
    <<"retrieve_context", "coverage_analysis", "exclusion_analysis",
      "fraud_detection", "payout_calculation", "recommendation">>

(***************************************************************************)
(* C1: whatever coverage terms the oracle returned, the computed payout    *)
(* satisfies 0 <= recommended_payout <= claimed_amount.                    *)
(***************************************************************************)
C1_PayoutWithinClaimed ==
    (pc \in {"generate_recommendation", "assemble", "returned"}) =>
        /\ payout_calculation.recommended_payout >= 0
        /\ payout_calculation.recommended_payout <= claim.claimed_amount

C3_ExcludedIffUnexceptedEntry ==
    /\ (pc \in {"detect_fraud", "calculate_payout", "generate_recommendation",
                "assemble", "returned"}) =>
          (Truthy(exclusion_analysis.claim_excluded)
              <=> UnexceptedEntry(exclusion_analysis))
    /\ (pc \in {"generate_recommendation", "assemble", "returned"}
        /\ UnexceptedEntry(exclusion_analysis)) =>
          payout_calculation.recommended_payout = 0

(***************************************************************************)
(* C4: validate either returns a result or raises ClaimValidationError     *)
(* carrying the claim id; nothing else leaves validate.                    *)
(***************************************************************************)
C4_OnlyClaimValidationError ==
    Raised =>
        /\ outcome.type = "ClaimValidationError"
        /\ outcome.claim_id = claim.claim_id

(***************************************************************************)
(* C5: a stage that raises is caught: an error step is logged, the safe    *)
(* default replaces its output and the run proceeds; no stage error        *)
(* leaves the orchestrator.                                                *)
(***************************************************************************)
C5_StageErrorsRecovered ==
    /\ ~(Raised /\ outcome.stage \in
            {"analyze_coverage", "analyze_exclusions", "detect_fraud",
             "calculate_payout", "generate_recommendation"})
    /\ Cardinality(StepsWithStatus(steps, "error"))
          = Cardinality({st \in OracleStages : CallFailed(st)})
    /\ CallFailed("analyze_coverage") =>
          ~Truthy(coverage_analysis.coverage_applies)
    /\ CallFailed("analyze_exclusions") =>
          (exclusion_analysis.exclusions_triggered = << >>
           /\ ~Truthy(exclusion_analysis.claim_excluded))

(***************************************************************************)
(* C6: every returned result carries exactly one step per stage of the     *)
(* pipeline.                                                               *)
(***************************************************************************)
C6_OneStepPerStage ==
    Returned =>
        /\ Len(outcome.validation_steps) = Len(ExpectedStepNames)
        /\ \A i, j \in 1..Len(outcome.validation_steps) :
              (outcome.validation_steps[i].step_name
                 = outcome.validation_steps[j].step_name) => i = j

(***************************************************************************)
(* C7: the step log only grows by appending, and at every point its step   *)
(* names follow the fixed stage sequence, whichever stages failed.         *)
(***************************************************************************)
C7_StepsAppendOnlyInOrder ==
    /\ [](IsPrefix(StepNamesOf(steps), ExpectedStepNames))
    /\ [](Returned => outcome.validation_steps = steps)
    /\ [][IsPrefix(steps, steps')]_vars

C7_Witness ==
    /\ Returned
    /\ Len(outcome.validation_steps) >= 5
    /\ outcome.validation_steps[2].status = "error"
    /\ outcome.validation_steps[3].status = "error"
    /\ outcome.validation_steps[5].step_name = "payout_calculation"

(***************************************************************************)
(* C8: in every returned result, is_valid = coverage_applies and not       *)
(* claim_excluded, on the oracle path and on the fallback path.            *)
(***************************************************************************)
C8_IsValidIsCoveredAndNotExcluded ==
    Returned =>
        (outcome.is_valid <=>
            (outcome.coverage_applies
             /\ ~Truthy(exclusion_analysis.claim_excluded)))

(***************************************************************************)
(* C9: when the synthesis oracle call fails, the recommendation is the     *)
(* fallback table (investigate, else deny if not covered, else deny if     *)
(* excluded, else review), confidence is 0.5 and the reasoning is the      *)
(* fallback marker.                                                        *)
(***************************************************************************)
C9_FallbackTable ==
    CallFailed("generate_recommendation") =>
        LET inv == fraud_analysis.requires_investigation
            cov == Truthy(coverage_analysis.coverage_applies)
            exc == Truthy(exclusion_analysis.claim_excluded)
        IN  /\ inv => recommendation = "investigate"
            /\ (~inv /\ ~cov) => recommendation = "deny"
            /\ (~inv /\ cov /\ exc) => recommendation = "deny"
            /\ (~inv /\ cov /\ ~exc) => recommendation = "review"
            /\ confidence = 50
            /\ reasoning = "Automated fallback decision"
            /\ Returned =>
                  /\ outcome.recommendation = recommendation
                  /\ outcome.confidence_score = 50

C9_Witness ==
    /\ Returned
    /\ CallFailed("generate_recommendation")
    /\ Truthy(coverage_analysis.coverage_applies)
    /\ Truthy(exclusion_analysis.claim_excluded)
    /\ outcome.recommendation = "deny"
    /\ outcome.confidence_score = 50

(***************************************************************************)
(* C10: when every oracle call of a run fails, a result is still returned, *)
(* the coverage, exclusion and synthesis stages each leave an error step,  *)
(* the recommendation is the fallback one and confidence is 0.5.           *)
(***************************************************************************)
C10_AllOracleCallsFail ==
    (/\ pc \in {"assemble", "returned", "raised"}
     /\ \A st \in OracleStages : CallFailed(st)) =>
        /\ ~Raised
        /\ Cardinality(StepsWithStatus(steps, "error")) = 3
        /\ recommendation = FallbackRecommendation(fraud_analysis,
                                coverage_analysis, exclusion_analysis)
        /\ confidence = 50

C12_DegradedIffErrorOrWarningStep ==
    Returned =>
        ((\E i \in 1..Len(calls) : ~calls[i].ok)
           <=> (\E i \in 1..Len(outcome.validation_steps) :
                   outcome.validation_steps[i].status \in {"error", "warning"}))

(***************************************************************************)
(* C13: when the similarity search raises, the retrieve stage records one  *)
(* step with status warning, the evidence is empty, and the run goes on    *)
(* to the next stages; the retrieval failure never ends the run.           *)
(***************************************************************************)
C13_RetrievalFailureNonFatal ==
    CallFailed("retrieve_context") =>
        /\ pc \notin {"idle", "retrieve_context"}
        /\ Len(steps) >= 1
        /\ steps[1] = [step_name |-> "retrieve_context", status |-> "warning"]
        /\ \A i \in 2..Len(steps) : steps[i].step_name # "retrieve_context"
        /\ relevant_clauses = 0
        /\ Raised => outcome.stage # "retrieve_context"
        /\ Returned =>
              /\ outcome.relevant_clauses = 0
              /\ outcome.validation_steps[1].status = "warning"

C13_Witness ==
    /\ Returned
    /\ CallFailed("retrieve_context")
    /\ \A st \in OracleStages : CallSucceeded(st)
    /\ Len(outcome.validation_steps) = 5
    /\ outcome.validation_steps[1].status = "warning"

C15_ExclusionFailureDoesNotExclude ==
    CallFailed("analyze_exclusions") =>
        /\ exclusion_analysis.claim_excluded = "False"
        /\ exclusion_analysis.exclusions_triggered = << >>
        /\ steps[3] = [step_name |-> "exclusion_analysis", status |-> "error"]
        /\ \A i \in 1..Len(steps) :
              steps[i].step_name = "exclusion_analysis" => i = 3
        /\ (pc \in {"generate_recommendation", "assemble", "returned"}
            /\ Truthy(coverage_analysis.coverage_applies)) =>
              /\ payout_calculation.eligible
              /\ (coverage_analysis.deductible = Num(0)
                  /\ coverage_analysis.copay_percentage = Num(0))
                    => payout_calculation.recommended_payout > 0
        /\ (CallFailed("generate_recommendation")
            /\ Truthy(coverage_analysis.coverage_applies)) =>
              recommendation # "deny"
        /\ Returned => outcome.exclusion_details = << >>

C15_Witness ==
    /\ Returned
    /\ CallFailed("analyze_exclusions")
    /\ CallFailed("generate_recommendation")
    /\ outcome.coverage_applies
    /\ outcome.payout_calculation.recommended_payout > 0
    /\ outcome.recommendation = "review"

(***************************************************************************)
(* C16: fraud_score is the sum of the contributions of the triggered       *)
(* indicators clamped to [0,1]; it lies in [0,1] and does not decrease     *)
(* when the set of triggered indicators grows.                             *)
(***************************************************************************)
RECURSIVE TotalOf(_)
TotalOf(inds) ==
    IF Len(inds) = 0 THEN 0
    ELSE inds[1].score_contribution + TotalOf(SubSeq(inds, 2, Len(inds)))

TriggeredTypes(inds) == {inds[i].indicator_type : i \in 1..Len(inds)}

C16_FraudScoreClampedSum ==
    (pc \in {"calculate_payout", "generate_recommendation", "assemble",
             "returned"}) =>
        LET total == TotalOf(fraud_analysis.indicators)
        IN  /\ fraud_analysis.fraud_score
                 = (IF total > 100 THEN 100 ELSE IF total < 0 THEN 0 ELSE total)
            /\ fraud_analysis.fraud_score >= 0
            /\ fraud_analysis.fraud_score <= 100
            /\ \A c \in Claims :
                  (TriggeredTypes(FraudAnalysisOf(c).indicators)
                     \subseteq TriggeredTypes(fraud_analysis.indicators))
                  => FraudAnalysisOf(c).fraud_score
                        <= fraud_analysis.fraud_score

C16_Witness ==
    /\ pc = "calculate_payout"
    /\ Len(fraud_analysis.indicators) = 2
    /\ fraud_analysis.fraud_score = 30

(***************************************************************************)
(* C17: for a covered, not excluded claim the payout equals the reference  *)
(* function: eligible = min(claimed, limit) if limit > 0 else claimed;     *)
(* after_deductible = max(0, eligible - deductible); copay_amount =        *)
(* after_deductible * copay / 100 if copay > 0 else 0; recommended_payout  *)
(* = after_deductible - copay_amount, to the cent. Claimed 15000, limit    *)
(* 50000, deductible 500, copay 20% give 15000, 2900 and 11600.            *)
(***************************************************************************)
NearestCent(n, d) ==
    CHOOSE q \in (n \div d)..((n \div d) + 1) :
        LET twice == 2 * n - 2 * q * d
        IN  \/ (twice > -d /\ twice < d)
            \/ ((twice = d \/ twice = -d) /\ q % 2 = 0)

ReferencePayout(claimed_amount, coverage_limit, deductible, copay_percentage) ==
    LET eligible == IF coverage_limit > 0
                      THEN (IF claimed_amount <= coverage_limit
                              THEN claimed_amount ELSE coverage_limit)
                      ELSE claimed_amount
        after_deductible == IF eligible - deductible >= 0
                              THEN eligible - deductible ELSE 0
        copay_x100 == IF copay_percentage > 0
                        THEN after_deductible * copay_percentage ELSE 0
    IN  [eligible_amount |-> eligible,
         copay_amount |-> NearestCent(copay_x100, 100),
         recommended_payout |->
             NearestCent(after_deductible * 100 - copay_x100, 100)]

C17_PayoutEqualsReference ==
    (pc \in {"generate_recommendation", "assemble", "returned"}
     /\ Truthy(coverage_analysis.coverage_applies)
     /\ ~Truthy(exclusion_analysis.claim_excluded)) =>
        LET ref == ReferencePayout(claim.claimed_amount,
                                   coverage_analysis.coverage_limit.v,
                                   coverage_analysis.deductible.v,
                                   coverage_analysis.copay_percentage.v)
        IN  /\ payout_calculation.eligible_amount = ref.eligible_amount
            /\ payout_calculation.copay_amount = ref.copay_amount
            /\ payout_calculation.recommended_payout = ref.recommended_payout
            /\ (claim.claimed_amount = 1500000
                /\ coverage_analysis.coverage_limit = Num(5000000)
                /\ coverage_analysis.deductible = Num(50000)
                /\ coverage_analysis.copay_percentage = Num(20)) =>
                  /\ payout_calculation.eligible_amount = 1500000
                  /\ payout_calculation.copay_amount = 290000
                  /\ payout_calculation.recommended_payout = 1160000

\* the case of C17 with the copay percentages the reference function and
\* the code treat alike
C17_AgreesOnNonNegativeCopay ==
    (pc \in {"generate_recommendation", "assemble", "returned"}
     /\ Truthy(coverage_analysis.coverage_applies)
     /\ ~Truthy(exclusion_analysis.claim_excluded)
     /\ coverage_analysis.copay_percentage.v >= 0) =>
        LET ref == ReferencePayout(claim.claimed_amount,
                                   coverage_analysis.coverage_limit.v,
                                   coverage_analysis.deductible.v,
                                   coverage_analysis.copay_percentage.v)
        IN  /\ payout_calculation.eligible_amount = ref.eligible_amount
            /\ payout_calculation.copay_amount = ref.copay_amount
            /\ payout_calculation.recommended_payout = ref.recommended_payout

(***************************************************************************)
(* C18: every validation run eventually ends, even when an external call   *)
(* never returns: a timeout turns the silent call into a failed one.       *)
(* LiveSpec states the scheduling of the code: the stages that make no     *)
(* external call always run to completion; the collaborators are not       *)
(* obliged to answer, and the code sets no timer on them.                  *)
(***************************************************************************)
LiveSpec ==
    /\ Init /\ [][Next]_vars
    /\ WF_vars(Validate)
    /\ WF_vars(DetectFraud)
    /\ WF_vars(CalculatePayout)
    /\ WF_vars(CalculatePayoutRaise)
    /\ WF_vars(AssembleResult)
    /\ WF_vars(AssembleRaise)

C18_EveryRunEnds ==
    (pc = "retrieve_context") ~> (pc \in {"returned", "raised"})

(***************************************************************************)
(* C20: every returned result has a recommendation among approve, deny,    *)
(* review, investigate and a confidence in [0,1], whatever the synthesis   *)
(* oracle returned.                                                        *)
(***************************************************************************)
C20_RecommendationAndConfidenceInRange ==
    Returned =>
        /\ outcome.recommendation \in
              {"approve", "deny", "review", "investigate"}
        /\ outcome.confidence_score >= 0
        /\ outcome.confidence_score <= 100

(***************************************************************************)
(* C19: with the same claim and policy and the same stubbed answers, a     *)
(* second run of validate returns a result equal to the first in every     *)
(* field other than timestamps and processing time (which the model does   *)
(* not carry).                                                             *)
(***************************************************************************)
C19_RerunGivesIdenticalResult ==
    (run = 2 /\ pc \in {"returned", "raised"}) =>
        /\ Returned
        /\ outcome = first

\* C19 as amended: the two results agree in every field but the generated
\* validation_id
SameButValidationId(r1, r2) ==
    /\ r1.is_valid = r2.is_valid
    /\ r1.recommendation = r2.recommendation
    /\ r1.confidence_score = r2.confidence_score
    /\ r1.coverage_applies = r2.coverage_applies
    /\ r1.exclusion_details = r2.exclusion_details
    /\ r1.payout_calculation = r2.payout_calculation
    /\ r1.fraud_analysis = r2.fraud_analysis
    /\ r1.validation_steps = r2.validation_steps
    /\ r1.relevant_clauses = r2.relevant_clauses
    /\ r1.reasoning_summary = r2.reasoning_summary

C19_RerunDiffersOnlyInValidationId ==
    (run = 2 /\ pc \in {"returned", "raised"}) =>
        /\ Returned
        /\ SameButValidationId(outcome, first)

C19_Witness ==
    /\ run = 2
    /\ Returned
    /\ outcome.validation_id # first.validation_id
    /\ CallFailed("analyze_exclusions")
    /\ outcome.payout_calculation.recommended_payout > 0
    /\ outcome.recommendation = "approve"

(***************************************************************************)
(* C21: the workflow is a line: every run executes retrieve_context,       *)
(* analyze_coverage, analyze_exclusions, detect_fraud, calculate_payout,   *)
(* generate_recommendation once each in that order and then reaches the    *)
(* end of the graph; the step out of a stage is always the step into the   *)
(* next stage.                                                             *)
(***************************************************************************)
Stages ==
    <<"retrieve_context", "analyze_coverage", "analyze_exclusions",
      "detect_fraud", "calculate_payout", "generate_recommendation">>

\* the edges of the compiled graph; "assemble" is the position after END
StageAfter(stage) ==
    IF stage = Stages[Len(Stages)] THEN "assemble"
    ELSE Stages[(CHOOSE i \in 1..Len(Stages) : Stages[i] = stage) + 1]

InStage == \E i \in 1..Len(Stages) : pc = Stages[i]

C21_StagesOnceEachInOrder ==
    [][InStage => pc' = StageAfter(pc)]_vars

\* the part of C21 that the graph does give: a stage is left only for the
\* next stage or by an exception, never for an earlier or a later stage
C21_NoBranchNoLoop ==
    [][InStage => pc' \in {StageAfter(pc), "raised"}]_vars

(***************************************************************************)
(* C22: the fraud rules are evaluated independently of each other: the     *)
(* high-value rule triggers iff claimed_amount > 50000 and contributes 0.2 *)
(* with severity medium, the vague-description rule triggers iff the       *)
(* description has fewer than 50 characters and contributes 0.1 with       *)
(* severity low. 60000 claimed with a 10-character description gives       *)
(* fraud_score 0.3 and requires_investigation = false.                     *)
(***************************************************************************)
IndicatorsOfType(inds, indicator_type) ==
    {i \in 1..Len(inds) : inds[i].indicator_type = indicator_type}

\* amounts and lengths on both sides of the two thresholds
ProbeClaims ==
    [claim_id : ClaimIds,
     claimed_amount : {0, 4999999, 5000000, 5000001, 6000000},
     description_length : {0, 10, 49, 50, 51}]

RuleTableHolds(c, inds) ==
    /\ Cardinality(IndicatorsOfType(inds, "amount_anomaly"))
          = (IF c.claimed_amount > 5000000 THEN 1 ELSE 0)
    /\ Cardinality(IndicatorsOfType(inds, "inconsistent_info"))
          = (IF c.description_length < 50 THEN 1 ELSE 0)
    /\ \A i \in 1..Len(inds) :
          \/ /\ inds[i].indicator_type = "amount_anomaly"
             /\ inds[i].severity = "medium"
             /\ inds[i].score_contribution = 20
          \/ /\ inds[i].indicator_type = "inconsistent_info"
             /\ inds[i].severity = "low"
             /\ inds[i].score_contribution = 10

C22_FraudRulesIndependent ==
    (pc \in {"calculate_payout", "generate_recommendation", "assemble",
             "returned"}) =>
        /\ RuleTableHolds(claim, fraud_analysis.indicators)
        /\ (claim.claimed_amount = 6000000 /\ claim.description_length = 10) =>
              /\ fraud_analysis.fraud_score = 30
              /\ ~fraud_analysis.requires_investigation
        /\ (pc = "calculate_payout") =>
              \A c \in ProbeClaims : RuleTableHolds(c, FraudIndicators(c))

C22_Witness ==
    /\ pc = "calculate_payout"
    /\ claim.claimed_amount = 6000000
    /\ claim.description_length = 10
    /\ IndicatorsOfType(fraud_analysis.indicators, "amount_anomaly") = {1}
    /\ IndicatorsOfType(fraud_analysis.indicators, "inconsistent_info") = {2}
    /\ steps[Len(steps)].step_name = "fraud_detection"

(***************************************************************************)
(* C26: with the two implemented rules (0.2 and 0.1) every claim has       *)
(* fraud_score <= 0.3, so requires_investigation is false, risk_level is   *)
(* low, the fraud step is passed and the fallback table never gives        *)
(* investigate.                                                            *)
(***************************************************************************)
C26_InvestigationNeverRequired ==
    /\ (pc \in {"calculate_payout", "generate_recommendation", "assemble",
                "returned", "raised"}) =>
          /\ fraud_analysis.fraud_score <= 30
          /\ ~fraud_analysis.requires_investigation
          /\ fraud_analysis.risk_level = "low"
          /\ steps[4] = [step_name |-> "fraud_detection", status |-> "passed"]
    /\ CallFailed("generate_recommendation") => recommendation # "investigate"
    /\ (Returned /\ CallFailed("generate_recommendation")) =>
          outcome.recommendation # "investigate"

C26_Witness ==
    /\ Returned
    /\ CallFailed("generate_recommendation")
    /\ outcome.fraud_analysis.fraud_score = 30
    /\ outcome.fraud_analysis.risk_level = "low"
    /\ outcome.validation_steps[4].status = "passed"
    /\ outcome.recommendation = "review"

(***************************************************************************)
(* C27: in every returned result recommendation = approve implies          *)
(* is_valid = true; no result recommends approve after the coverage stage  *)
(* fell back to its default, and the fallback table never gives approve.   *)
(***************************************************************************)
C27_ApproveImpliesValid ==
    Returned =>
        /\ outcome.recommendation = "approve" => outcome.is_valid
        /\ CallFailed("analyze_coverage") => outcome.recommendation # "approve"
        /\ CallFailed("generate_recommendation") =>
              outcome.recommendation # "approve"

\* the part of C27 that the code does give: the fallback table has no
\* approve row
C27_FallbackNeverApproves ==
    CallFailed("generate_recommendation") => recommendation # "approve"

(***************************************************************************)
(* C23: in every fraud analysis requires_investigation is true exactly     *)
(* when the reported fraud_score is >= 0.5, and risk_level is low below    *)
(* 0.5, medium from 0.5 and high from 0.7 of the reported score, also when *)
(* the sum of the contributions exceeds 1.                                 *)
(***************************************************************************)
RiskRank(level) ==
    IF level = "low" THEN 1 ELSE IF level = "medium" THEN 2 ELSE 3

C23_InvestigationAndRiskFollowScore ==
    (fraud_analysis # None) =>
        /\ fraud_analysis.requires_investigation
              <=> (fraud_analysis.fraud_score >= 50)
        /\ fraud_analysis.risk_level =
              (IF fraud_analysis.fraud_score >= 70 THEN "high"
               ELSE IF fraud_analysis.fraud_score >= 50 THEN "medium"
               ELSE "low")
        /\ \A inds \in IndicatorLists :
              (FraudSummary(inds).fraud_score <= fraud_analysis.fraud_score)
                 => RiskRank(FraudSummary(inds).risk_level)
                       <= RiskRank(fraud_analysis.risk_level)

C23_Witness ==
    /\ fraud_analysis # None
    /\ TotalOf(fraud_analysis.indicators) > 100
    /\ fraud_analysis.fraud_score = 100
    /\ fraud_analysis.risk_level = "high"
    /\ fraud_analysis.requires_investigation

(***************************************************************************)
(* C24: invoke_with_json strips an optional leading code fence (with or    *)
(* without the word json) and an optional trailing fence and parses the    *)
(* rest as JSON: a JSON document gives the same value with and without     *)
(* fences, and a text that does not parse raises an error; no partial or   *)
(* default value is ever returned.                                         *)
(***************************************************************************)
Opt(piece) == {<< >>, <<piece>>}

\* a JSON document as a provider may wrap it
FencedForms(doc) ==
    { a \o open \o b \o <<doc>> \o c \o close \o d :
        a \in Opt(Space), b \in Opt(Space), c \in Opt(Space), d \in Opt(Space),
        open \in {<< >>, <<Fence>>, <<Fence, JsonWord>>},
        close \in Opt(Fence) }

IsJsonText(piece) == piece \in JsonTexts

DocumentsIn(text) == SelectSeq(text, IsJsonText)

ValueOfDocument(doc) ==
    IF doc = "{}" THEN [type |-> "dict", size |-> 0]
    ELSE [type |-> "list", size |-> 0]

ParsedText ==
    /\ entry = "invoke_with_json"
    /\ llm_pc \in {"returned", "raised"}
    /\ invocations # << >>
    /\ invocations[Len(invocations)].ok

C24_JsonParsingContract ==
    ParsedText =>
        LET raw == invocations[Len(invocations)].detail
        IN  /\ \A doc \in JsonTexts :
                  raw \in FencedForms(doc) =>
                      /\ llm_pc = "returned"
                      /\ llm_outcome =
                           [kind |-> "json", value |-> ValueOfDocument(doc)]
            /\ llm_outcome.kind \in {"json", "error"}
            /\ llm_outcome.kind = "json" =>
                  \E doc \in JsonTexts :
                      /\ DocumentsIn(raw) = <<doc>>
                      /\ llm_outcome.value = ValueOfDocument(doc)
            /\ Len(DocumentsIn(raw)) # 1 =>
                  /\ llm_pc = "raised"
                  /\ llm_outcome = [kind |-> "error", type |-> "ValueError"]

C24_Witness ==
    /\ ParsedText
    /\ invocations[Len(invocations)].detail
          = <<Fence, JsonWord, Space, "{}", Fence>>
    /\ llm_outcome = [kind |-> "json", value |-> [type |-> "dict", size |-> 0]]

(***************************************************************************)
(* C28: invoke_sync calls the primary provider exactly once and the        *)
(* fallback provider at most once, the fallback only after the primary     *)
(* failed and only if one is configured; it returns the first successful   *)
(* response, and when every call failed it raises the exception of the     *)
(* primary provider; no provider is called twice.                          *)
(***************************************************************************)
InvocationsBy(role) ==
    {i \in 1..Len(invocations) : invocations[i].role = role}

C30_CacheMatchesLastWrite ==
    (store_result.op \in {"save", "delete"}) =>
        /\ DOMAIN cache = DOMAIN written
        /\ \A k \in (DOMAIN cache) \cap (DOMAIN written) :
              /\ written[k].id = cache[k].id
              /\ written[k].revision = cache[k].revision

\* the part of C30 that the code does give: a delete that returns False
\* leaves the entities of the store and the file as they were
C30_DeleteAbsentChangesNothing ==
    [][(store_result'.op = "delete" /\ store_result'.value = "False") =>
          /\ cache' = LoadAll
          /\ file' = file
          /\ written' = written]_vars

(***************************************************************************)
(* C29: in extract_full_policy the three extractions run concurrently and  *)
(* fail independently: whichever of them fail and in whatever order they   *)
(* finish, the call returns a Policy in which a failed extraction gives an *)
(* empty list and exactly one entry of the errors list, a successful one   *)
(* keeps its items, and no failure of an extraction is raised.             *)
(***************************************************************************)
FailedTasks == {t \in TaskNames : tasks[t].status = "failed"}

ErrorsAbout(t) ==
    {i \in 1..Len(policy.errors) : policy.errors[i].extraction = t}

ListOf(t) ==
    IF t = "clauses" THEN policy.clauses
    ELSE IF t = "coverage" THEN policy.coverage_items
    ELSE policy.exclusions

RECURSIVE ParsableItems(_)
ParsableItems(items) ==
    IF Len(items) = 0 THEN << >>
    ELSE (IF items[1] = "unparsable" THEN << >> ELSE <<items[1]>>)
         \o ParsableItems(SubSeq(items, 2, Len(items)))

C29_ExtractionsFailIndependently ==
    /\ extract_pc # "raised"
    /\ policy.kind # "error"
    /\ (extract_pc = "returned") =>
          /\ policy.kind = "policy"
          /\ Len(policy.errors) = Cardinality(FailedTasks)
          /\ \A t \in TaskNames :
                IF t \in FailedTasks
                  THEN /\ ListOf(t) = << >>
                       /\ Cardinality(ErrorsAbout(t)) = 1
                  ELSE /\ ListOf(t) = ParsableItems(tasks[t].answer)
                       /\ ErrorsAbout(t) = {}

C29_Witness ==
    /\ extract_pc = "returned"
    /\ completed = <<"exclusions", "clauses", "coverage">>
    /\ FailedTasks = {"clauses", "exclusions"}
    /\ policy.coverage_items = <<"item_2", "item_1">>
    /\ Len(policy.errors) = 2

(***************************************************************************)
(* C25: concurrent validations are independent: however two validate       *)
(* calls for different claims interleave on one validator, the step log of *)
(* a call is local to it, its result holds only steps, analyses and payout *)
(* derived from its own claim and the answers to its own questions, and no *)
(* call observes or alters the state of the other.                         *)
(***************************************************************************)
RECURSIVE SettleLocal(_)
SettleLocal(st) ==
    IF st.pc \in {"detect_fraud", "calculate_payout"}
      THEN SettleLocal(LocalStage(st)) ELSE st

\* the state a call reaches alone, given its claim and the answers it got
RECURSIVE SoloFrom(_, _)
SoloFrom(st, answers) ==
    IF Len(answers) = 0 THEN SettleLocal(st)
    ELSE SoloFrom(ApplyAnswer(SettleLocal(st), answers[1]),
                  SubSeq(answers, 2, Len(answers)))

\* the state of a call before validate builds its result, with the stages
\* that need no answer carried out
BeforeResult(st) ==
    IF st.pc = "returned" \/ (st.pc = "raised" /\ st.outcome.stage = "assemble")
      THEN [st EXCEPT !.pc = "assemble", !.outcome = [kind |-> "none"]]
      ELSE SettleLocal([st EXCEPT !.awaiting = FALSE])

RunIsItsOwn(r) ==
    LET st == validations[r]
        own == RunClaims[r]
    IN  (st.pc # "idle") =>
          /\ st.claim = own
          /\ BeforeResult(st) = SoloFrom(StartRun(own), st.calls)
          /\ IsPrefix(StepNamesOf(st.steps), ExpectedStepNames)
          /\ (st.outcome.kind = "result") =>
                /\ st.outcome.validation_steps = st.steps
                /\ st.outcome.payout_calculation.claimed_amount
                      = own.claimed_amount
                /\ st.outcome.payout_calculation.recommended_payout
                      <= own.claimed_amount
                /\ st.outcome.fraud_analysis = FraudAnalysisOf(own)
          /\ (st.outcome.kind = "error"
              /\ st.outcome.type = "ClaimValidationError") =>
                st.outcome.claim_id = own.claim_id

C25_ConcurrentRunsIndependent ==
    /\ [](\A r \in RunIds : RunIsItsOwn(r))
    /\ [][\A r \in RunIds :
            (validations'[r] # validations[r]) =>
                \A q \in RunIds \ {r} : validations'[q] = validations[q]]_vars

C25_Witness ==
    /\ validations[1].outcome.kind = "result"
    /\ validations[1].outcome.payout_calculation.recommended_payout = 1160000
    /\ Len(validations[1].outcome.validation_steps) = 5
    /\ validations[2].pc = "analyze_exclusions"
    /\ validations[2].awaiting
    /\ validations[2].steps[2].status = "error"
    /\ Len(validations[2].steps) = 2

====
